---------------------------- MODULE Spec2Model ----------------------------
(***************************************************************************)
(* The trips listing endpoint of backend/app/routers/trips.py: get_trips   *)
(* builds a parameterized WHERE clause from the active filters, runs a     *)
(* COUNT query and an OFFSET/FETCH page query against fact_trip_sample,    *)
(* maps each returned row to a Trip (skipping rows whose conversion raises *)
(* KeyError, ValueError or TypeError) and returns the mapped rows with the *)
(* pagination metadata; any other exception yields the empty response.     *)
(*                                                                         *)
(* Python values are tagged records ([t |-> "int", n |-> 5], ...), so that *)
(* truthiness, float() and int() can be computed as Python computes them.  *)
(* Floats are fixed-point: the field m counts units of 1/Scale.            *)
(***************************************************************************)
EXTENDS Integers, Sequences, FiniteSets, TLC

(***************************************************************************)
(* Bounds of the model.                                                    *)
(***************************************************************************)
\* rows the table holds at most
MaxRows == 2
\* page numbers requested: 1..MaxPage
MaxPage == 2
\* small page sizes requested: 0..MaxPageSize (0 is the unvalidated case)
MaxPageSize == 2
\* writes of other clients between the two queries of one call
MaxWrites == 1
\* length of the strings a numeric column may hold
MaxStrLen == 2

(***************************************************************************)
(* Constants of the program.                                               *)
(***************************************************************************)
\* page: int = Query(1, ge=1)
DefaultPage == 1
\* page_size: int = Query(100, ge=1, le=1000)
DefaultPageSize == 100

(***************************************************************************)
(* Python values.                                                          *)
(***************************************************************************)
None == [t |-> "none"]
IntV(n) == [t |-> "int", n |-> n]
FloatV(m) == [t |-> "float", m |-> m]
Inf == [t |-> "inf"]
\* an int above the largest double, such as 10**400
HugeInt == [t |-> "hugeint"]
StrV(s) == [t |-> "str", s |-> s]
DateV(d) == [t |-> "date", d |-> d]
DateTimeV(ts) == [t |-> "datetime", ts |-> ts]
EnumV(v) == [t |-> "enum", value |-> v]

RECURSIVE Pow10(_)
Pow10(k) == IF k = 0 THEN 1 ELSE 10 * Pow10(k - 1)

\* one float unit is 1/Scale: every decimal literal of MaxStrLen characters is exact
Scale == Pow10(MaxStrLen)

\* the float whole.tenths
Dec(whole, tenths) == FloatV(whole * Scale + tenths * (Scale \div 10))

\* bool(v): None, 0, 0.0 and "" are falsy
Truthy(v) ==
    CASE v.t = "none" -> FALSE
      [] v.t = "int" -> v.n # 0
      [] v.t = "float" -> v.m # 0
      [] v.t = "str" -> v.s # ""
      [] OTHER -> TRUE

Digits == {"0", "5"}

DigitVal(c) == IF c = "5" THEN 5 ELSE 0

RECURSIVE IsDigits(_)
\* every character of s is a decimal digit (true of "")
IsDigits(s) == IF s = "" THEN TRUE ELSE Head(s) \in Digits /\ IsDigits(Tail(s))

RECURSIVE DigitsVal(_)
DigitsVal(s) ==
    IF s = "" THEN 0
    ELSE DigitVal(Head(s)) * Pow10(Len(s) - 1) + DigitsVal(Tail(s))

\* position of the first "." of s at or after i, 0 when there is none
DotAt(s, i) ==
    LET dots == {k \in i..Len(s) : SubSeq(s, k, k) = "."}
    IN  IF dots = {} THEN 0 ELSE CHOOSE k \in dots : \A j \in dots : k <= j

Raise(exc) == [ok |-> FALSE, exc |-> exc]
Ok(v) == [ok |-> TRUE, v |-> v]

\* float(str): digits, digits "." digits, "." digits or digits "."
ParseFloat(s) ==
    LET d == DotAt(s, 1)
        a == IF d = 0 THEN s ELSE SubSeq(s, 1, d - 1)
        b == IF d = 0 THEN "" ELSE SubSeq(s, d + 1, Len(s))
    IN  IF IsDigits(a) /\ IsDigits(b) /\ Len(a) + Len(b) > 0
        THEN Ok(FloatV(DigitsVal(a) * Scale + DigitsVal(b) * (Scale \div Pow10(Len(b)))))
        ELSE Raise("ValueError")

\* int(str): digits only
ParseInt(s) ==
    IF s # "" /\ IsDigits(s) THEN Ok(IntV(DigitsVal(s))) ELSE Raise("ValueError")

\* float(v): refuses an int above the largest double with OverflowError
ToFloat(v) ==
    CASE v.t = "int" -> Ok(FloatV(v.n * Scale))
      [] v.t = "hugeint" -> Raise("OverflowError")
      [] v.t = "float" -> Ok(v)
      [] v.t = "inf" -> Ok(v)
      [] v.t = "str" -> ParseFloat(v.s)
      [] OTHER -> Raise("TypeError")

\* int(v): truncates a float toward zero, refuses infinity with OverflowError
ToInt(v) ==
    CASE v.t = "int" -> Ok(v)
      [] v.t = "hugeint" -> Ok(v)
      [] v.t = "float" ->
            Ok(IntV(IF v.m >= 0 THEN v.m \div Scale ELSE -((-v.m) \div Scale)))
      [] v.t = "inf" -> Raise("OverflowError")
      [] v.t = "str" -> ParseInt(v.s)
      [] OTHER -> Raise("TypeError")

\* row.get(key): the value, None when the key is absent
Get(row, key) == IF key \in DOMAIN row THEN row[key] ELSE None

\* row.get(key, 0)
GetOr0(row, key) == IF key \in DOMAIN row THEN row[key] ELSE IntV(0)

\* float(row.get(key, 0)) if row.get(key) else 0.0
FloatField(row, key) ==
    IF Truthy(Get(row, key)) THEN ToFloat(GetOr0(row, key)) ELSE Ok(FloatV(0))

\* int(row.get(key, 0)) if row.get(key) else 0
IntField(row, key) ==
    IF Truthy(Get(row, key)) THEN ToInt(GetOr0(row, key)) ELSE Ok(IntV(0))

RequiredKeys == <<"trip_id", "service_type", "pickup_datetime", "dropoff_datetime">>

RECURSIVE FirstMissing(_, _)
\* index of the first required key row[...] fails on, 0 when all are present
FirstMissing(row, i) ==
    IF i > Len(RequiredKeys) THEN 0
    ELSE IF RequiredKeys[i] \notin DOMAIN row THEN i
    ELSE FirstMissing(row, i + 1)

\* The body of the row loop's try block: the Trip built from the row, or the
\* first exception its argument expressions raise, in evaluation order.
TryTrip(row) ==
    LET dist == FloatField(row, "trip_distance")
        amt == FloatField(row, "total_amount")
        dur == IntField(row, "trip_duration_sec")
    IN  IF FirstMissing(row, 1) # 0 THEN Raise("KeyError")
        ELSE IF ~dist.ok THEN dist
        ELSE IF ~amt.ok THEN amt
        ELSE IF ~dur.ok THEN dur
        ELSE Ok([trip_id |-> row["trip_id"],
                 service_type |-> row["service_type"],
                 pickup_datetime |-> row["pickup_datetime"],
                 dropoff_datetime |-> row["dropoff_datetime"],
                 pickup_borough |-> Get(row, "pickup_borough"),
                 pickup_zone |-> Get(row, "pickup_zone"),
                 dropoff_borough |-> Get(row, "dropoff_borough"),
                 dropoff_zone |-> Get(row, "dropoff_zone"),
                 trip_distance |-> dist.v,
                 total_amount |-> amt.v,
                 trip_duration_sec |-> dur.v])

\* except (KeyError, ValueError, TypeError): continue
CaughtByRowLoop == {"KeyError", "ValueError", "TypeError"}

(***************************************************************************)
(* Predicate builder and the two queries.                                  *)
(***************************************************************************)
\* " AND ".join(where_parts)
RECURSIVE JoinAnd(_)
JoinAnd(parts) ==
    IF Len(parts) = 1 THEN parts[1]
    ELSE parts[1] \o " AND " \o JoinAnd(Tail(parts))

\* DateFilterActive with or for and
EitherDate(start_date, end_date) == Truthy(start_date) \/ Truthy(end_date)

\* if start_date and end_date
DateFilterActive(start_date, end_date) == Truthy(start_date) /\ Truthy(end_date)

\* DateParams appended in the other order
DateParamsSwapped(start_date, end_date) == <<end_date, start_date>>

\* params.append(start_date); params.append(end_date)
DateParams(start_date, end_date) == <<start_date, end_date>>

\* where_parts and params after the three filter blocks
BuildPredicates(req) ==
    LET dates == DateFilterActive(req.start_date, req.end_date)
        p1 == IF dates THEN <<"CAST(pickup_date AS DATE) >= ?",
                              "CAST(pickup_date AS DATE) <= ?">>
              ELSE <<>>
        a1 == IF dates THEN DateParams(req.start_date, req.end_date) ELSE <<>>
        p2 == IF Truthy(req.service_type) THEN <<"service_type = ?">> ELSE <<>>
        a2 == IF Truthy(req.service_type) THEN <<StrV(req.service_type.value)>> ELSE <<>>
        p3 == IF Truthy(req.borough) THEN <<"pickup_borough = ?">> ELSE <<>>
        a3 == IF Truthy(req.borough) THEN <<req.borough>> ELSE <<>>
    IN  [where_parts |-> p1 \o p2 \o p3, params |-> a1 \o a2 \o a3]

\* " AND ".join(where_parts) if where_parts else "1=1"
WhereClause(where_parts) ==
    IF Len(where_parts) > 0 THEN JoinAnd(where_parts) ELSE "1=1"

TupleV(items) == [t |-> "tuple", items |-> items]

\* tuple(params) if params else None
ParamsArg(ps) == IF Len(ps) > 0 THEN TupleV(ps) ELSE None

\* the f-string of the count query, clause by clause
CountQuery(clause) ==
    [select |-> "COUNT(*) as total",
     from |-> "fact_trip_sample",
     where |-> clause,
     order_by |-> "",
     paging |-> ""]

\* the f-string of the page query, clause by clause
PageQuery(clause) ==
    [select |-> "trip_id, service_type, pickup_datetime, dropoff_datetime, pickup_location_id, dropoff_location_id, pickup_borough, pickup_zone, dropoff_borough, dropoff_zone, trip_distance, total_amount, trip_duration_sec, pickup_date, is_valid, created_at",
     from |-> "fact_trip_sample",
     where |-> clause,
     order_by |-> "pickup_datetime DESC",
     paging |-> "OFFSET ? ROWS FETCH NEXT ? ROWS ONLY"]

\* CountCall counting the whole table
CountCallUnfiltered(clause, ps) ==
    [call |-> "execute_scalar", query |-> CountQuery("1=1"), args |-> None]

\* db.execute_scalar(count_query, tuple(params) if params else None)
CountCall(clause, ps) ==
    [call |-> "execute_scalar", query |-> CountQuery(clause), args |-> ParamsArg(ps)]

\* Offset counting pages from 0
OffsetFromPage(page, page_size) == page * page_size

\* offset = (page - 1) * page_size
Offset(page, page_size) == (page - 1) * page_size

\* params.append(offset); params.append(page_size)
PaginationParams(off, page_size) == <<IntV(off), IntV(page_size)>>

\* db.execute_query(query, tuple(params) if params else None)
PageCall(clause, ps) ==
    [call |-> "execute_query", query |-> PageQuery(clause), args |-> ParamsArg(ps)]

\* total_records = count_result if count_result else 0
TotalRecords(count_result) == IF Truthy(count_result) THEN count_result.n ELSE 0

\* TotalPages with floor division
TotalPagesFloor(total, page_size) ==
    IF page_size > 0 THEN total \div page_size ELSE 0

\* math.ceil(total_records / page_size) if page_size > 0 else 0
TotalPages(total, page_size) ==
    IF page_size > 0 THEN (total + page_size - 1) \div page_size ELSE 0

\* the response of the normal return
TripsResponse(data, page, page_size, total) ==
    [data |-> data,
     pagination |-> [page |-> page,
                     page_size |-> page_size,
                     total_records |-> total,
                     total_pages |-> TotalPages(total, page_size)]]

\* FallbackResponse with the defaults for page and page_size
FallbackWithDefaults(page, page_size) ==
    [data |-> <<>>,
     pagination |-> [page |-> DefaultPage,
                     page_size |-> DefaultPageSize,
                     total_records |-> 0,
                     total_pages |-> 0]]

\* the response of the except Exception branch
FallbackResponse(page, page_size) ==
    [data |-> <<>>,
     pagination |-> [page |-> page,
                     page_size |-> page_size,
                     total_records |-> 0,
                     total_pages |-> 0]]

(***************************************************************************)
(* What the database answers: the meaning of the two SQL statements over   *)
(* the rows of fact_trip_sample.                                           *)
(***************************************************************************)
\* occurrences of the character c in s
CountChar(s, c) == Cardinality({i \in 1..Len(s) : SubSeq(s, i, i) = c})

\* position of the first occurrence of pat in s at or after i, 0 when none
FindSub(s, pat, i) ==
    LET hits == {k \in i..(Len(s) - Len(pat) + 1) : SubSeq(s, k, k + Len(pat) - 1) = pat}
    IN  IF hits = {} THEN 0 ELSE CHOOSE k \in hits : \A j \in hits : k <= j

RECURSIVE SplitAnd(_)
\* the conjuncts of a WHERE clause
SplitAnd(s) ==
    LET k == FindSub(s, " AND ", 1)
    IN  IF k = 0 THEN <<s>>
        ELSE <<SubSeq(s, 1, k - 1)>> \o SplitAnd(SubSeq(s, k + 5, Len(s)))

\* the values bound to a call's placeholders, left to right
ArgList(args) == IF args.t = "tuple" THEN args.items ELSE <<>>

\* placeholders of a statement, WHERE clause first
Placeholders(q) == CountChar(q.where, "?") + CountChar(q.paging, "?")

\* the driver binds one value per placeholder and refuses anything else
Bindable(q, args) == Placeholders(q) = Len(ArgList(args))

\* one conjunct on one row, its placeholder bound to arg; a comparison
\* with NULL is not true
EvalConjunct(c, row, arg) ==
    LET pd == Get(row, "pickup_date")
    IN  CASE c = "CAST(pickup_date AS DATE) >= ?" ->
               pd.t = "date" /\ arg.t = "date" /\ pd.d >= arg.d
          [] c = "CAST(pickup_date AS DATE) <= ?" ->
               pd.t = "date" /\ arg.t = "date" /\ pd.d <= arg.d
          [] c = "service_type = ?" ->
               arg.t = "str" /\ Get(row, "service_type") = arg
          [] c = "pickup_borough = ?" ->
               arg.t = "str" /\ Get(row, "pickup_borough") = arg
          [] c = "1=1" -> TRUE
          [] OTHER -> FALSE

RECURSIVE EvalWhere(_, _, _)
\* the conjunction, each placeholder taking the next bound value
EvalWhere(cs, row, vals) ==
    IF Len(cs) = 0 THEN TRUE
    ELSE LET n == CountChar(cs[1], "?")
         IN  /\ EvalConjunct(cs[1], row, IF n > 0 THEN vals[1] ELSE None)
             /\ EvalWhere(Tail(cs), row, SubSeq(vals, n + 1, Len(vals)))

\* rows the conjuncts cs select, their placeholders bound to vals
Selected(rows, cs, vals) == {r \in rows : EvalWhere(cs, r, vals)}

\* rows of the table the statement's WHERE clause selects
Matching(rows, q, args) == Selected(rows, SplitAnd(q.where), ArgList(args))

\* SELECT COUNT(*)
ExecuteScalar(rows, q, args) == IntV(Cardinality(Matching(rows, q, args)))

\* ORDER BY pickup_datetime DESC: the sort key of a row
SortKey(row) ==
    LET v == Get(row, "pickup_datetime")
    IN  IF v.t = "datetime" THEN v.ts ELSE -1

\* every order of the rows S that ORDER BY pickup_datetime DESC allows: rows
\* with equal pickup_datetime come in any order
Orderings(S) ==
    LET n == Cardinality(S)
    IN  {f \in [1..n -> S] :
            /\ \A i, j \in 1..n : i # j => f[i] # f[j]
            /\ \A i \in 1..n : \A j \in 1..n :
                   i < j => SortKey(f[i]) >= SortKey(f[j])}

\* OFFSET off ROWS FETCH NEXT n ROWS ONLY: the statement is refused, and the
\* database call raises, when off is negative or n is not positive
Window(ord, off, n) ==
    IF off < 0 \/ n <= 0 THEN Raise("ProgrammingError")
    ELSE IF off >= Len(ord) THEN Ok(<<>>)
    ELSE Ok(SubSeq(ord, off + 1,
                   IF off + n < Len(ord) THEN off + n ELSE Len(ord)))

\* the page of an ordered result: OFFSET and FETCH take the last two values
PageOf(ord, q, args) ==
    LET vals == ArgList(args)
        k == CountChar(q.where, "?")
    IN  Window(ord, vals[k + 1].n, vals[k + 2].n)


(***************************************************************************)
(* The rows the table may hold and the requests a caller may make.         *)
(***************************************************************************)
\* a complete row: tied with TiedRow on pickup_datetime
GoodRow ==
    [trip_id |-> IntV(1), service_type |-> StrV("yellow"),
     pickup_datetime |-> DateTimeV(10), dropoff_datetime |-> DateTimeV(11),
     pickup_date |-> DateV(1), pickup_borough |-> StrV("Manhattan"),
     pickup_zone |-> StrV("Midtown"), dropoff_borough |-> StrV("Queens"),
     dropoff_zone |-> StrV("Astoria"),
     trip_distance |-> Dec(2, 5), total_amount |-> StrV("50"),
     trip_duration_sec |-> IntV(600)]

\* same filters and same pickup_datetime as GoodRow; falsy numeric fields
TiedRow ==
    [trip_id |-> IntV(2), service_type |-> StrV("yellow"),
     pickup_datetime |-> DateTimeV(10), dropoff_datetime |-> DateTimeV(12),
     pickup_date |-> DateV(1), pickup_borough |-> StrV("Manhattan"),
     trip_distance |-> None, total_amount |-> IntV(0),
     trip_duration_sec |-> StrV("")]

\* another service type and borough; no numeric field but a float duration
GreenRow ==
    [trip_id |-> IntV(3), service_type |-> StrV("green"),
     pickup_datetime |-> DateTimeV(20), dropoff_datetime |-> DateTimeV(21),
     pickup_date |-> DateV(2), pickup_borough |-> StrV("Queens"),
     trip_duration_sec |-> Dec(2, 5)]

\* no trip_id key: row['trip_id'] raises KeyError before trip_distance is read
NoIdRow ==
    [service_type |-> StrV("yellow"),
     pickup_datetime |-> DateTimeV(20), dropoff_datetime |-> DateTimeV(22),
     pickup_date |-> DateV(3), pickup_borough |-> StrV("Manhattan"),
     trip_distance |-> StrV("x")]

\* a trip_duration_sec int() refuses with OverflowError
InfDurationRow ==
    [trip_id |-> IntV(6), service_type |-> StrV("green"),
     pickup_datetime |-> DateTimeV(30), dropoff_datetime |-> DateTimeV(32),
     pickup_date |-> DateV(4), pickup_borough |-> StrV("Manhattan"),
     trip_distance |-> Dec(1, 0), trip_duration_sec |-> Inf]

RowPool == {GoodRow, TiedRow, GreenRow, NoIdRow, InfDurationRow}

Tables == {S \in SUBSET RowPool : Cardinality(S) <= MaxRows}

StartDates == {None, DateV(2)}
EndDates == {None, DateV(3)}
ServiceTypes == {None, EnumV("yellow")}
Boroughs == {None, StrV(""), StrV("Manhattan")}
Pages == 1..MaxPage
PageSizes == (0..MaxPageSize) \cup {DefaultPageSize}

Requests ==
    [start_date : StartDates, end_date : EndDates, service_type : ServiceTypes,
     borough : Boroughs, page : Pages, page_size : PageSizes]

NoRequest ==
    [start_date |-> None, end_date |-> None, service_type |-> None,
     borough |-> None, page |-> 0, page_size |-> 0]

NoResponse == [data |-> <<>>, pagination |-> [page |-> 0, page_size |-> 0,
                                              total_records |-> 0, total_pages |-> 0]]

NoLast == [set |-> FALSE]

(***************************************************************************)
(* State.                                                                  *)
(***************************************************************************)
VARIABLES
    store,            \* the rows of fact_trip_sample
    writes,           \* writes of other clients since this call's count query
    pc,               \* where get_trips stands: idle, count, page, map, done
    request,          \* the arguments of the call
    where_clause,     \* the handler's local of that name
    params,           \* the handler's list params
    total_records,    \* the handler's local of that name
    offset,           \* the handler's local of that name
    result,           \* the rows execute_query returned
    idx,              \* rows of result the loop has been through
    trips_data,       \* the handler's list trips_data
    response,         \* what the call returned
    outcome,          \* how the call ended: ok, count_failed, page_failed, row_raised
    db_log,           \* the database calls of this request, in order
    ordered,          \* the ordered rows the page query selected from
    last              \* the preceding response to the same listing, if any

vars == <<store, writes, pc, request, where_clause, params, total_records, offset,
          result, idx, trips_data, response, outcome, db_log, ordered, last>>

\* no call in progress
Idle ==
    /\ pc = "idle"
    /\ request = NoRequest
    /\ where_clause = ""
    /\ params = <<>>
    /\ total_records = 0
    /\ offset = 0
    /\ result = <<>>
    /\ idx = 0
    /\ trips_data = <<>>
    /\ response = NoResponse
    /\ outcome = "none"
    /\ db_log = <<>>
    /\ ordered = <<>>

Init ==
    /\ store \in Tables
    /\ writes = 0
    /\ Idle
    /\ last = NoLast

(***************************************************************************)
(* get_trips, one step per database call and per row of the loop.          *)
(***************************************************************************)
\* the call is made: the predicate is built and the count query is next
Request(req) ==
    /\ pc = "idle"
    /\ request' = req
    /\ LET b == BuildPredicates(req)
       IN  /\ where_clause' = WhereClause(b.where_parts)
           /\ params' = b.params
    /\ pc' = "count"
    /\ UNCHANGED <<store, writes, total_records, offset, result, idx, trips_data,
                   response, outcome, db_log, ordered, last>>

\* the count query answers
CountOk ==
    /\ pc = "count"
    /\ LET c == CountCall(where_clause, params)
       IN  /\ Bindable(c.query, c.args)
           /\ total_records' = TotalRecords(ExecuteScalar(store, c.query, c.args))
           /\ db_log' = Append(db_log, c)
    /\ offset' = Offset(request.page, request.page_size)
    /\ pc' = "page"
    /\ UNCHANGED <<store, writes, request, where_clause, params, result, idx,
                   trips_data, response, outcome, ordered, last>>

\* the count query raises: except Exception returns the empty response
CountFails ==
    /\ pc = "count"
    /\ db_log' = Append(db_log, CountCall(where_clause, params))
    /\ response' = FallbackResponse(request.page, request.page_size)
    /\ outcome' = "count_failed"
    /\ pc' = "done"
    /\ UNCHANGED <<store, writes, request, where_clause, params, total_records,
                   offset, result, idx, trips_data, ordered, last>>

\* the page query answers with one page of one of the orders ORDER BY allows;
\* it cannot answer when the database refuses its OFFSET and FETCH values
PageOk ==
    /\ pc = "page"
    /\ LET ps == params \o PaginationParams(offset, request.page_size)
           c == PageCall(where_clause, ps)
       IN  /\ Bindable(c.query, c.args)
           /\ params' = ps
           /\ db_log' = Append(db_log, c)
           /\ \E ord \in Orderings(Matching(store, c.query, c.args)) :
                  /\ PageOf(ord, c.query, c.args).ok
                  /\ ordered' = ord
                  /\ result' = PageOf(ord, c.query, c.args).v
    /\ pc' = "map"
    /\ UNCHANGED <<store, writes, request, where_clause, total_records, offset, idx,
                   trips_data, response, outcome, last>>

\* the page query raises: the database fails, or refuses the statement
\* (FETCH NEXT 0 ROWS ONLY when page_size is 0)
PageFails ==
    /\ pc = "page"
    /\ LET ps == params \o PaginationParams(offset, request.page_size)
       IN  /\ params' = ps
           /\ db_log' = Append(db_log, PageCall(where_clause, ps))
    /\ response' = FallbackResponse(request.page, request.page_size)
    /\ outcome' = "page_failed"
    /\ pc' = "done"
    /\ UNCHANGED <<store, writes, request, where_clause, total_records, offset,
                   result, idx, trips_data, ordered, last>>

\* one turn of the row loop: the Trip is appended, the row is skipped, or an
\* exception the loop does not catch reaches except Exception
MapRow ==
    /\ pc = "map"
    /\ idx < Len(result)
    /\ LET r == TryTrip(result[idx + 1])
       IN  IF r.ok
           THEN /\ trips_data' = Append(trips_data, r.v)
                /\ idx' = idx + 1
                /\ UNCHANGED <<pc, response, outcome>>
           ELSE IF r.exc \in CaughtByRowLoop
           THEN /\ idx' = idx + 1
                /\ UNCHANGED <<pc, trips_data, response, outcome>>
           ELSE /\ response' = FallbackResponse(request.page, request.page_size)
                /\ outcome' = "row_raised"
                /\ pc' = "done"
                /\ UNCHANGED <<idx, trips_data>>
    /\ UNCHANGED <<store, writes, request, where_clause, params, total_records,
                   offset, result, db_log, ordered, last>>

\* the loop is over: the normal return
Respond ==
    /\ pc = "map"
    /\ idx = Len(result)
    /\ response' = TripsResponse(trips_data, request.page, request.page_size,
                                 total_records)
    /\ outcome' = "ok"
    /\ pc' = "done"
    /\ UNCHANGED <<store, writes, request, where_clause, params, total_records,
                   offset, result, idx, trips_data, db_log, ordered, last>>

\* the locals of a call that has not begun
ResetLocals ==
    /\ pc' = "idle"
    /\ request' = NoRequest
    /\ where_clause' = ""
    /\ params' = <<>>
    /\ total_records' = 0
    /\ offset' = 0
    /\ result' = <<>>
    /\ idx' = 0
    /\ trips_data' = <<>>
    /\ response' = NoResponse
    /\ outcome' = "none"
    /\ db_log' = <<>>
    /\ ordered' = <<>>
    /\ writes' = 0

\* the call is over; nothing of it is kept
Return ==
    /\ pc = "done"
    /\ ResetLocals
    /\ last' = NoLast
    /\ UNCHANGED store

\* another client inserts or deletes a row between the two queries. The handler
\* sees the table only through its two queries, and every table is an initial
\* one, so a write at any other moment leads to no new behaviour of the call.
Write ==
    /\ pc = "page"
    /\ writes < MaxWrites
    /\ writes' = writes + 1
    /\ \E r \in RowPool :
          IF r \in store THEN store' = store \ {r}
          ELSE Cardinality(store) < MaxRows /\ store' = store \cup {r}
    /\ UNCHANGED <<pc, request, where_clause, params, total_records, offset, result,
                   idx, trips_data, response, outcome, db_log, ordered, last>>

Next ==
    \/ \E req \in Requests : Request(req)
    \/ CountOk
    \/ CountFails
    \/ PageOk
    \/ PageFails
    \/ MapRow
    \/ Respond
    \/ Return
    \/ Write

Spec == Init /\ [][Next]_vars

(***************************************************************************)
(* Paging through one listing: two calls with the same filters and page    *)
(* size over a table nobody writes to and a database that answers every    *)
(* statement it accepts.                                                   *)
(***************************************************************************)
SameListing(a, b) ==
    /\ a.start_date = b.start_date
    /\ a.end_date = b.end_date
    /\ a.service_type = b.service_type
    /\ a.borough = b.borough
    /\ a.page_size = b.page_size

\* a call; the second one asks for a page of the first one's listing
PagingRequest(req) ==
    /\ last.set => SameListing(req, last.request)
    /\ Request(req)

\* the page query raises because the database refuses its OFFSET and FETCH
\* values (page_size 0): the request alone decides it
PageRefused ==
    /\ pc = "page"
    /\ ~Window(<<>>, offset, request.page_size).ok
    /\ PageFails

\* the first call is over: its response is remembered
ReturnFirst ==
    /\ pc = "done"
    /\ ~last.set
    /\ last' = [set |-> TRUE, request |-> request, outcome |-> outcome,
                data |-> response.data, selected |-> Len(ordered)]
    /\ ResetLocals
    /\ UNCHANGED store

NextPaging ==
    \/ \E req \in Requests : PagingRequest(req)
    \/ CountOk
    \/ PageOk
    \/ PageRefused
    \/ MapRow
    \/ Respond
    \/ ReturnFirst

SpecPaging == Init /\ [][NextPaging]_vars

(***************************************************************************)
(* The row mapper over the values a numeric column may hold: one default   *)
(* call over a table of one row.                                           *)
(***************************************************************************)
Alphabet == {"0", "5", ".", "x"}

RECURSIVE Strings(_)
\* the strings over Alphabet of at most n characters
Strings(n) ==
    IF n = 0 THEN {""}
    ELSE Strings(n - 1) \cup {s \o c : s \in Strings(n - 1), c \in Alphabet}

NumericValues ==
    {None, IntV(0), IntV(5), HugeInt, FloatV(0), Dec(2, 5), Inf}
        \cup {StrV(s) : s \in Strings(MaxStrLen)}

\* stands for a key the row does not have
Absent == [t |-> "absent"]

\* the field key holding v, or no such key
Field(key, v) == IF v = Absent THEN <<>> ELSE key :> v

Keyed(r) == [trip_id |-> IntV(7)] @@ r

MapperRows ==
    LET base == [service_type |-> StrV("yellow"),
                 pickup_datetime |-> DateTimeV(10), dropoff_datetime |-> DateTimeV(11),
                 pickup_date |-> DateV(1)]
        bodies == {base @@ d @@ a @@ u :
                      d \in {Field("trip_distance", v) : v \in NumericValues \cup {Absent}},
                      a \in {Field("total_amount", v) :
                                v \in {Absent, None, IntV(5), StrV("x")}},
                      u \in {Field("trip_duration_sec", v) : v \in NumericValues \cup {Absent}}}
    IN  bodies \cup {Keyed(r) : r \in bodies}

DefaultRequest ==
    [start_date |-> None, end_date |-> None, service_type |-> None,
     borough |-> None, page |-> DefaultPage, page_size |-> DefaultPageSize]

InitMapper ==
    /\ store \in {{r} : r \in MapperRows}
    /\ writes = 0
    /\ Idle
    /\ last = NoLast

NextMapper ==
    \/ Request(DefaultRequest)
    \/ CountOk
    \/ PageOk
    \/ MapRow
    \/ Respond

SpecMapper == InitMapper /\ [][NextMapper]_vars

(***************************************************************************)
(* Vocabulary of the properties.                                           *)
(***************************************************************************)
Min(a, b) == IF a < b THEN a ELSE b
Max(a, b) == IF a > b THEN a ELSE b

\* the least k with k * d >= n
Ceiling(n, d) == CHOOSE k \in 0..n : k * d >= n /\ \A j \in 0..(k - 1) : j * d < n

Pagination == response.pagination

\* the call ended because a database call raised
DbFailed == outcome \in {"count_failed", "page_failed"}

\* the page query has answered
PageFetched == pc \in {"map", "done"} /\ ~DbFailed

BothDates == request.start_date # None /\ request.end_date # None
ServiceActive == request.service_type # None
BoroughActive == request.borough \notin {None, StrV("")}

\* the filter a request asks for, read off the request and the row
RowWanted(r, req, dates) ==
    /\ dates => /\ Get(r, "pickup_date").t = "date"
                /\ req.start_date.d <= Get(r, "pickup_date").d
                /\ Get(r, "pickup_date").d <= req.end_date.d
    /\ req.service_type # None => Get(r, "service_type") = StrV(req.service_type.value)
    /\ req.borough \notin {None, StrV("")} => Get(r, "pickup_borough") = req.borough

Wanted(dates) == {r \in store : RowWanted(r, request, dates)}

\* the values bound to the WHERE clause's placeholders
PredicateParams == SubSeq(params, 1, CountChar(where_clause, "?"))

RECURSIVE Converted(_)
\* the Trips of the rows that convert, in order
Converted(rows) ==
    IF Len(rows) = 0 THEN <<>>
    ELSE (IF TryTrip(rows[1]).ok THEN <<TryTrip(rows[1]).v>> ELSE <<>>)
         \o Converted(Tail(rows))

MissesRequired(r) == \E i \in 1..Len(RequiredKeys) : RequiredKeys[i] \notin DOMAIN r

(***************************************************************************)
(* C1. When the count query or the page query raises, the call returns the *)
(* empty response (data empty, total_records and total_pages 0, page and   *)
(* page_size those of the request) and makes no further database call: a   *)
(* failed count query is the only call, a failed page query the second and *)
(* last.                                                                   *)
(***************************************************************************)
C1_FailureYieldsEmptyResponse ==
    /\ (pc = "done" /\ DbFailed) =>
          /\ response.data = <<>>
          /\ Pagination.total_records = 0
          /\ Pagination.total_pages = 0
          /\ Pagination.page = request.page
          /\ Pagination.page_size = request.page_size
    /\ (pc = "done" /\ outcome = "count_failed") =>
          /\ Len(db_log) = 1
          /\ db_log[1].call = "execute_scalar"
    /\ (pc = "done" /\ outcome = "page_failed") =>
          /\ Len(db_log) = 2
          /\ db_log[1].call = "execute_scalar"
          /\ db_log[2].call = "execute_query"

\* the page query failed after the count query had counted rows
C1_Witness ==
    /\ pc = "done"
    /\ outcome = "page_failed"
    /\ total_records > 0
    /\ Pagination.total_records = 0

(***************************************************************************)
(* C2. A call that returns normally reports the count query's result as    *)
(* total_records and total_pages = ceil(total_records / page_size) for     *)
(* page_size >= 1; total_pages is 0 when total_records is 0 (with no       *)
(* concurrent write the whole response is then empty) and when page_size   *)
(* is not positive (no such call returns normally: the page query is       *)
(* refused and the empty response, with total_pages 0, is returned).       *)
(***************************************************************************)
C2_TotalPagesIsCeiling ==
    pc = "done" =>
        /\ outcome = "ok" =>
              /\ Pagination.total_records = total_records
              /\ Pagination.page = request.page
              /\ Pagination.page_size = request.page_size
              /\ request.page_size >= 1 =>
                    Pagination.total_pages = Ceiling(total_records, request.page_size)
              /\ total_records = 0 => Pagination.total_pages = 0
              /\ (total_records = 0 /\ writes = 0) => response.data = <<>>
        /\ request.page_size <= 0 => Pagination.total_pages = 0

\* one record and a page size of two: one page, where a floor would give none
C2_Witness ==
    /\ pc = "done"
    /\ outcome = "ok"
    /\ total_records = 1
    /\ request.page_size = 2
    /\ Pagination.total_pages = 1

(***************************************************************************)
(* C3. The page query is issued with offset = (page - 1) * page_size bound *)
(* to OFFSET and page_size bound to FETCH, in that order after the         *)
(* predicate parameters, and the rows it returns are the positions         *)
(* offset + 1 .. offset + page_size of the selected rows in the query's    *)
(* order.                                                                  *)
(***************************************************************************)
C3_PageWindow ==
    /\ Len(db_log) = 2 =>
          LET a == ArgList(db_log[2].args)
              k == CountChar(db_log[2].query.where, "?")
          IN  /\ db_log[2].query.paging = "OFFSET ? ROWS FETCH NEXT ? ROWS ONLY"
              /\ Len(a) = k + 2
              /\ a[k + 1] = IntV((request.page - 1) * request.page_size)
              /\ a[k + 2] = IntV(request.page_size)
    /\ PageFetched =>
          LET off == (request.page - 1) * request.page_size
          IN  /\ Len(result) = Min(request.page_size, Max(0, Len(ordered) - off))
              /\ \A i \in 1..Len(result) : result[i] = ordered[off + i]

\* page 2 of pages of one row: the first row is skipped, the second returned
C3_Witness ==
    /\ pc = "map"
    /\ request.page = 2
    /\ request.page_size = 1
    /\ Len(ordered) = 2
    /\ result = <<ordered[2]>>

(***************************************************************************)
(* C4. A call given only one of start_date and end_date builds the WHERE   *)
(* clause and parameters, makes the database calls and counts the rows of  *)
(* the same call given neither date: no date predicate and no date         *)
(* parameter appear unless both dates are given.                           *)
(***************************************************************************)
C4_OneDateIsNoDate ==
    (pc # "idle" /\ ~BothDates) =>
        LET twin == [request EXCEPT !.start_date = None, !.end_date = None]
            b == BuildPredicates(twin)
            clause == WhereClause(b.where_parts)
        IN  /\ where_clause = clause
            /\ PredicateParams = b.params
            /\ FindSub(where_clause, "pickup_date", 1) = 0
            /\ \A i \in 1..Len(params) : params[i].t # "date"
            /\ Len(db_log) >= 1 => db_log[1] = CountCall(clause, b.params)
            /\ Len(db_log) = 2 =>
                  db_log[2] = PageCall(clause, b.params \o
                      PaginationParams(Offset(twin.page, twin.page_size), twin.page_size))
            /\ (pc = "page" /\ writes = 0) =>
                  total_records = Cardinality(Wanted(FALSE))
            /\ PageFetched =>
                  {ordered[i] : i \in 1..Len(ordered)} = Wanted(FALSE)

\* only start_date is given, and a row picked up before it is returned
C4_Witness ==
    /\ pc = "done"
    /\ outcome = "ok"
    /\ request.start_date = DateV(2)
    /\ request.end_date = None
    /\ \E i \in 1..Len(response.data) : response.data[i].trip_id = IntV(1)

C8_Holds(cs, want, pp) ==
    /\ Len(want) = 0 => where_clause = "1=1"
    /\ Len(want) > 0 =>
          /\ Len(cs) = Len(want)
          /\ \A i \in 1..Len(cs) : cs[i] = want[i].c /\ CountChar(cs[i], "?") = 1
    /\ Len(pp) = Len(want)
    /\ \A i \in 1..Len(want) : pp[i] = want[i].v
    /\ Len(db_log) >= 1 =>
          /\ db_log[1].call = "execute_scalar"
          /\ db_log[1].query.where = where_clause
          /\ db_log[1].query.paging = ""
          /\ ArgList(db_log[1].args) = pp
    /\ Len(db_log) = 2 =>
          /\ db_log[2].call = "execute_query"
          /\ db_log[2].query.where = db_log[1].query.where
          /\ ArgList(db_log[2].args) =
                ArgList(db_log[1].args) \o <<IntV(offset), IntV(request.page_size)>>

\* the templates and values the request's active filters call for, in order
ActivePredicates ==
    (IF BothDates
     THEN <<[c |-> "CAST(pickup_date AS DATE) >= ?", v |-> request.start_date],
            [c |-> "CAST(pickup_date AS DATE) <= ?", v |-> request.end_date]>>
     ELSE <<>>)
    \o (IF ServiceActive
        THEN <<[c |-> "service_type = ?", v |-> StrV(request.service_type.value)]>>
        ELSE <<>>)
    \o (IF BoroughActive
        THEN <<[c |-> "pickup_borough = ?", v |-> request.borough]>>
        ELSE <<>>)

(***************************************************************************)
(* C8. The WHERE clause is the AND-conjunction of the fixed templates of   *)
(* the active filters (both date templates, service_type, pickup_borough,  *)
(* in that order) or 1=1 when none is active; it has one placeholder per   *)
(* bound value and the values are bound left to right; the count query and *)
(* the page query carry the same clause, and the page query's parameters   *)
(* are the count query's followed by offset and page_size.                 *)
(***************************************************************************)
C8_ClauseAndParams ==
    pc # "idle" => C8_Holds(SplitAnd(where_clause), ActivePredicates, PredicateParams)

\* all three filters are active and both queries have been issued
C8_Witness ==
    /\ pc = "map"
    /\ BothDates
    /\ ServiceActive
    /\ BoroughActive
    /\ Len(db_log) = 2
    /\ Len(ArgList(db_log[2].args)) = 6

(***************************************************************************)
(* C10. The count query is the first database call and the page query the  *)
(* second. With no write between them total_records is the number of rows  *)
(* the filter selects when the page is fetched, and when every row of the  *)
(* page converts the response holds min(page_size, max(0, total_records -  *)
(* offset)) records. (With a write between them the witness is reached:    *)
(* records in data although total_records is 0.)                           *)
(***************************************************************************)
C10_CountAgreesWithoutWrites ==
    /\ Len(db_log) >= 1 => db_log[1].call = "execute_scalar"
    /\ Len(db_log) >= 2 => db_log[2].call = "execute_query"
    /\ (pc = "page" /\ writes = 0) => total_records = Cardinality(Wanted(BothDates))
    /\ (PageFetched /\ writes = 0) =>
          /\ total_records = Cardinality(Wanted(BothDates))
          /\ total_records = Len(ordered)
    /\ (pc = "done" /\ outcome = "ok" /\ writes = 0 /\ Len(trips_data) = Len(result)) =>
          /\ Pagination.total_records = Cardinality(Wanted(BothDates))
          /\ Len(response.data) =
                Min(request.page_size, Max(0, Pagination.total_records - offset))

\* a row was inserted after the count query found none: data without records
C10_Witness ==
    /\ pc = "done"
    /\ outcome = "ok"
    /\ writes > 0
    /\ Len(response.data) > 0
    /\ Pagination.total_records = 0

(***************************************************************************)
(* C9. A row whose conversion raises is dropped on its own: once the page  *)
(* query has answered, the response holds the Trips of the rows that       *)
(* convert, in order, with total_records the count result, and is never    *)
(* the empty fallback.                                                     *)
(***************************************************************************)
C9_RowFailureStaysLocal ==
    (pc = "done" /\ ~DbFailed) =>
        /\ outcome = "ok"
        /\ response.data = Converted(result)
        /\ Pagination.total_records = total_records

(***************************************************************************)
(* C5. On a page holding a row without one of the required keys, that row  *)
(* is absent from data, total_records is still the count result, and every *)
(* row that converts is in data, in order.                                 *)
(***************************************************************************)
C5_MissingFieldRowIsExcluded ==
    (pc = "done" /\ ~DbFailed /\ \E i \in 1..Len(result) : MissesRequired(result[i])) =>
        /\ Len(response.data) = Len(Converted(result))
        /\ \A i \in 1..Len(response.data) : response.data[i] = Converted(result)[i]
        /\ \A i \in 1..Len(result) :
              MissesRequired(result[i]) => ~TryTrip(result[i]).ok
        /\ Pagination.total_records = total_records

(***************************************************************************)
(* C7. Over an unchanged table, the same request returns the same records  *)
(* again, the pages of two different page numbers share no record, and     *)
(* pages 1 and 2 of a listing of at most two pages hold every selected row *)
(* that converts exactly once.                                             *)
(***************************************************************************)
C7_PagesAreStable ==
    (pc = "done" /\ last.set /\ outcome = "ok" /\ last.outcome = "ok"
        /\ request.page_size >= 1) =>
        LET mine == response.data
            theirs == last.data
            both == mine \o theirs
        IN  /\ request.page = last.request.page => mine = theirs
            /\ request.page # last.request.page =>
                  \A i \in 1..Len(mine) : \A j \in 1..Len(theirs) : mine[i] # theirs[j]
            /\ ({request.page, last.request.page} = {1, 2}
                   /\ Len(ordered) <= 2 * request.page_size) =>
                  \A i \in 1..Len(ordered) :
                      TryTrip(ordered[i]).ok =>
                          Cardinality({k \in 1..Len(both) :
                                          both[k] = TryTrip(ordered[i]).v}) = 1

\* a numeric value that is absent, None, empty or zero
ZeroLike(row, key) ==
    key \notin DOMAIN row \/ row[key] \in {None, IntV(0), FloatV(0), StrV("")}

\* a value the field's conversion refuses: a non-empty string that is no
\* literal of the field's type (a character that is neither a digit nor a
\* point, or a point in an integer field), an int above the largest double
\* in a float field, infinity in the integer field
NotConvertible(row, key) ==
    /\ key \in DOMAIN row
    /\ \/ /\ row[key].t = "str"
          /\ \/ FindSub(row[key].s, "x", 1) # 0
             \/ key = "trip_duration_sec" /\ FindSub(row[key].s, ".", 1) # 0
       \/ key # "trip_duration_sec" /\ row[key] = HugeInt
       \/ key = "trip_duration_sec" /\ row[key] = Inf

NumericKeys == {"trip_distance", "total_amount", "trip_duration_sec"}

Zero(key) == IF key = "trip_duration_sec" THEN IntV(0) ELSE FloatV(0)

\* the loop has been through the only row of the page
RowMapped == Len(result) = 1 /\ (idx = 1 \/ pc = "done")

(***************************************************************************)
(* C6. A row with its required keys whose numeric field is absent, None,   *)
(* empty, zero or not convertible to a number (its other numeric fields    *)
(* being absent, None, empty or zero) yields a record with that field 0.0  *)
(* / 0: the conversion neither raises nor drops the row.                   *)
(***************************************************************************)
C6_UnconvertibleYieldsZero ==
    RowMapped =>
        \A key \in NumericKeys :
            (/\ ~MissesRequired(result[1])
             /\ ZeroLike(result[1], key) \/ NotConvertible(result[1], key)
             /\ \A other \in NumericKeys \ {key} : ZeroLike(result[1], other)) =>
                /\ Len(trips_data) = 1
                /\ trips_data[1][key] = Zero(key)

=============================================================================
